---- MODULE Spec2Model ----
(***************************************************************************)
(* A model of the app_scraper repository: the orchestration loop           *)
(* (scripts.run_scraper, savers.save_app_and_comments), the comment        *)
(* pagination loop (scraper.extract_all_comment_elements), the per-field   *)
(* comment extraction (scraper.extract_comment_details) and the text       *)
(* normalizers of utils.py (parse_installs, parse_size, parse_jalali_date).*)
(*                                                                         *)
(* Strings are sequences of characters.  Latin characters stand for        *)
(* themselves ("1", "k", "M"); the Persian digits are written "p0".."p9"   *)
(* and the Persian letters by their names ("he", "ze", "alef", ...).       *)
(***************************************************************************)
EXTENDS Integers, Sequences, FiniteSets, TLC

VARIABLES
    pc,               \* position of the run: which statement runs next
    app_links,        \* scripts.py:18  list returned by get_app_links
    idx,              \* scripts.py:23  1-based position of the for loop
    session,          \* state of the page session: "none", "open", "closed"
    created,          \* number of create_webdriver() calls that returned
    quits,            \* number of wd.quit() calls
    propagating,      \* an exception is propagating out of run_scraper
    control,          \* PaginationState: the 'load more' control is in the DOM
    revealed,         \* PaginationState: number of comment units in the DOM
    clicks,           \* activations of the control in the current harvest
    comment_elements, \* savers.py:97  list returned by the harvest
    cidx,             \* savers.py:100 1-based position of the comment loop
    invoked,          \* history: app_url of every save_app_and_comments call
    harvests,         \* history: one record per extract_all_comment_elements call
    hlog,             \* history: session calls of the current harvest, in order
    saved,            \* history: per invocation, the comment elements saved
    appSaved,         \* history: per invocation, whether the app record was saved
    interrupted,      \* history: a BaseException that is no Exception reached
                      \* the handler of save_app_and_comments
    inp,              \* argument of the normalizer or extractor called
    out               \* its result ("pending" before the call)

runVars  == <<pc, app_links, idx, session, created, quits, propagating>>
pageVars == <<control, revealed, clicks, comment_elements, cidx>>
histVars == <<invoked, harvests, hlog, saved, appSaved>>
pureVars == <<inp, out>>
vars     == <<runVars, pageVars, histVars, interrupted, pureVars>>

Null == "None"

(***************************************************************************)
(* Bounds                                                                  *)
(***************************************************************************)
MaxApps     == 2   \* longest list of app links
MaxClicks   == 2   \* most activations of 'load more' in one harvest
MaxComments == 2   \* most comment units a page reveals

Urls == {"u1", "u2"}

SeqsUpTo(S, n) == UNION {[1..k -> S] : k \in 0..n}

Last(s) == s[Len(s)]

(***************************************************************************)
(* Exceptions.  "Exception" is any subclass of Exception (a selenium       *)
(* WebDriverException, a requests error, a database error); "Base" is a    *)
(* BaseException that is no Exception (KeyboardInterrupt, SystemExit).     *)
(***************************************************************************)
ExcKinds == {"Exception", "Base"}

(***************************************************************************)
(* Initial state of a run of run_scraper (scripts.py:10-17).               *)
(***************************************************************************)
RunInit ==
    /\ pc = "get_links"
    /\ app_links = <<>>
    /\ idx = 1
    /\ session = "none"
    /\ created = 0
    /\ quits = 0
    /\ propagating = FALSE
    /\ control = FALSE
    /\ revealed = 0
    /\ clicks = 0
    /\ comment_elements = <<>>
    /\ cidx = 1
    /\ invoked = <<>>
    /\ harvests = <<>>
    /\ hlog = <<>>
    /\ saved = <<>>
    /\ appSaved = <<>>
    /\ interrupted = FALSE

Init == RunInit /\ inp = Null /\ out = Null

(***************************************************************************)
(* savers.py:90,106-107.  An exception raised inside the try body of       *)
(* save_app_and_comments: `except Exception` logs it and the function      *)
(* returns, so the for loop of run_scraper goes on with the next app; a    *)
(* BaseException that is no Exception passes through to run_scraper, whose *)
(* finally clause runs next.                                               *)
(***************************************************************************)
SaveExceptNoCatch(kind) ==
    /\ pc' = "finally"
    /\ propagating' = TRUE
    /\ idx' = idx

SaveExcept(kind) ==
    IF kind = "Exception"
    THEN /\ pc' = "loop"
         /\ idx' = idx + 1
         /\ propagating' = propagating
    ELSE /\ pc' = "finally"
         /\ propagating' = TRUE
         /\ idx' = idx

(* an exception of kind `kind` is raised inside the try body *)
RaiseInApp(kind) ==
    /\ SaveExcept(kind)
    /\ interrupted' = (interrupted \/ kind = "Base")

(***************************************************************************)
(* scraper.py:157,169-170.  The bare `except:` around the pagination loop: *)
(* whatever was raised inside the loop (the TimeoutException of the wait,  *)
(* any other exception of the session, a BaseException) is logged and      *)
(* control goes on to the statement after the try, scraper.py:172.         *)
(***************************************************************************)
LoopExceptRetry == pc' = "locate"

LoopExcept == pc' = "collect"

(* scripts.py:18  app_links = get_app_links(LIST_URL, BASE_URL) *)
GetAppLinks ==
    /\ pc = "get_links"
    /\ \/ \E links \in SeqsUpTo(Urls, MaxApps) :
             /\ app_links' = links
             /\ pc' = "create_wd"
             /\ propagating' = propagating
       \/ /\ pc' = "done"            \* requests.get raised: no session yet
          /\ propagating' = TRUE
          /\ app_links' = app_links
    /\ UNCHANGED <<idx, session, created, quits, pageVars, histVars, pureVars>>
    /\ UNCHANGED interrupted

(* scripts.py:20  wd = create_webdriver() *)
CreateWebdriver ==
    /\ pc = "create_wd"
    /\ \/ /\ session' = "open"
          /\ created' = created + 1
          /\ pc' = "loop"
          /\ propagating' = propagating
       \/ /\ pc' = "done"            \* webdriver.Remote raised: nothing acquired
          /\ propagating' = TRUE
          /\ UNCHANGED <<session, created>>
    /\ UNCHANGED <<app_links, idx, quits, pageVars, histVars, pureVars>>
    /\ UNCHANGED interrupted

(* scripts.py:23-25  the for loop takes the next app_url and calls
   save_app_and_comments(wd, app_url) *)
SaveAppAndComments ==
    /\ pc = "loop"
    /\ idx <= Len(app_links)
    /\ invoked' = Append(invoked, app_links[idx])
    /\ saved' = Append(saved, <<>>)
    /\ appSaved' = Append(appSaved, FALSE)
    /\ pc' = "extract_app"
    /\ UNCHANGED <<app_links, idx, session, created, quits, propagating,
                   pageVars, harvests, hlog, pureVars>>
    /\ UNCHANGED interrupted

(* scripts.py:23,26  the for loop is exhausted: on to the finally clause *)
LoopExit ==
    /\ pc = "loop"
    /\ idx > Len(app_links)
    /\ pc' = "finally"
    /\ UNCHANGED <<app_links, idx, session, created, quits, propagating,
                   pageVars, histVars, pureVars>>
    /\ UNCHANGED interrupted

(* savers.py:92  app_data = extract_app_details(app_url) *)
ExtractAppDetails ==
    /\ pc = "extract_app"
    /\ \/ /\ pc' = "save_app"
          /\ UNCHANGED <<idx, propagating, interrupted>>
       \/ \E k \in ExcKinds : RaiseInApp(k)
    /\ UNCHANGED <<app_links, session, created, quits, pageVars, histVars, pureVars>>

(* savers.py:93-94  app_instance = save_app_details(app_data) *)
SaveAppDetails ==
    /\ pc = "save_app"
    /\ \/ /\ appSaved' = [appSaved EXCEPT ![Len(appSaved)] = TRUE]
          /\ pc' = "navigate"
          /\ UNCHANGED <<idx, propagating, interrupted>>
       \/ /\ \E k \in ExcKinds : RaiseInApp(k)
          /\ appSaved' = appSaved
    /\ UNCHANGED <<app_links, session, created, quits, pageVars,
                   invoked, harvests, hlog, saved, pureVars>>

(***************************************************************************)
(* extract_all_comment_elements(wd, app_url), scraper.py:138-174.          *)
(* The session calls of one harvest are logged in hlog, in order.          *)
(***************************************************************************)
SetResult(r) == harvests' = [harvests EXCEPT ![Len(harvests)].result = r]

(* scraper.py:152-155  wd.get(app_url), outside the try: what it raises
   leaves the function and reaches the handler of save_app_and_comments.
   The page starts with some comment units and with or without the control. *)
Navigate ==
    /\ pc = "navigate"
    /\ clicks' = 0
    /\ \/ /\ hlog' = <<"get_ok">>
          /\ harvests' = Append(harvests, [url |-> app_links[idx], wd |-> created,
                                           session |-> session, result |-> "running",
                                           inv |-> Len(invoked), elements |-> <<>>,
                                           failedAt |-> 0])
          /\ control' \in BOOLEAN
          /\ revealed' \in 0..MaxComments
          /\ pc' = "locate"
          /\ UNCHANGED <<idx, propagating, interrupted>>
       \/ /\ hlog' = <<"get_fail">>
          /\ harvests' = Append(harvests, [url |-> app_links[idx], wd |-> created,
                                           session |-> session, result |-> "raised",
                                           inv |-> Len(invoked), elements |-> <<>>,
                                           failedAt |-> 0])
          /\ \E k \in ExcKinds : RaiseInApp(k)
          /\ UNCHANGED <<control, revealed>>
    /\ UNCHANGED <<app_links, session, created, quits, comment_elements, cidx,
                   invoked, saved, appSaved, pureVars>>

(* scraper.py:158-162  wait.until(presence_of_element_located(...)): returns
   the element when the control is in the DOM, raises TimeoutException after
   the 10 s wait when it is not, and raises whatever the session raises.  The
   value returned is an element, which is truthy, so the `else: break` of
   scraper.py:167-168 is never taken. *)
LocateNoWait ==
    /\ pc = "locate"
    /\ \/ /\ control
          /\ hlog' = Append(hlog, "locate_ok")
          /\ pc' = "click"
       \/ /\ ~control                \* the timeout is ignored: on to the click
          /\ hlog' = Append(hlog, "locate_timeout")
          /\ pc' = "click"
       \/ /\ hlog' = Append(hlog, "locate_fail")
          /\ LoopExcept
    /\ UNCHANGED <<app_links, idx, session, created, quits, propagating, pageVars,
                   invoked, harvests, saved, appSaved, pureVars>>
    /\ UNCHANGED interrupted

Locate ==
    /\ pc = "locate"
    /\ \/ /\ control
          /\ hlog' = Append(hlog, "locate_ok")
          /\ pc' = "click"
       \/ /\ ~control
          /\ hlog' = Append(hlog, "locate_timeout")
          /\ LoopExcept
       \/ /\ hlog' = Append(hlog, "locate_fail")
          /\ LoopExcept
    /\ UNCHANGED <<app_links, idx, session, created, quits, propagating, pageVars,
                   invoked, harvests, saved, appSaved, pureVars>>
    /\ UNCHANGED interrupted

(* scraper.py:163-166  scrollIntoView, sleep, click, sleep.  An activation
   reveals zero or more further comment units and leaves the control in the
   DOM or removes it; MaxClicks bounds the pages of one app. *)
Click ==
    /\ pc = "click"
    /\ \/ /\ clicks < MaxClicks
          /\ clicks' = clicks + 1
          /\ revealed' \in revealed..MaxComments
          /\ control' \in (IF clicks + 1 < MaxClicks THEN BOOLEAN ELSE {FALSE})
          /\ hlog' = Append(hlog, "click_ok")
          /\ pc' = "locate"
       \/ /\ hlog' = Append(hlog, "click_fail")
          /\ LoopExcept
          /\ UNCHANGED <<clicks, revealed, control>>
    /\ UNCHANGED <<app_links, idx, session, created, quits, propagating,
                   comment_elements, cidx, invoked, harvests, saved, appSaved, pureVars>>
    /\ UNCHANGED interrupted

(* scraper.py:172-174  comment_elements = wd.find_elements(...); return.
   Outside the try: what it raises leaves the function. *)
Collect ==
    /\ pc = "collect"
    /\ \/ /\ hlog' = Append(hlog, "find_ok")
          /\ comment_elements' = [i \in 1..revealed |-> i]
          /\ cidx' = 1
          /\ harvests' = [harvests EXCEPT ![Len(harvests)].result = "returned",
                                          ![Len(harvests)].elements = comment_elements']
          /\ pc' = "comments"
          /\ UNCHANGED <<idx, propagating, interrupted>>
       \/ /\ hlog' = Append(hlog, "find_fail")
          /\ SetResult("raised")
          /\ \E k \in ExcKinds : RaiseInApp(k)
          /\ UNCHANGED <<comment_elements, cidx>>
    /\ UNCHANGED <<app_links, session, created, quits, control, revealed, clicks,
                   invoked, saved, appSaved, pureVars>>

(* history: the exception of the comment loop was raised at element cidx *)
SetFailedAt == harvests' = [harvests EXCEPT ![Len(harvests)].failedAt = cidx]

(* savers.py:100-101  comment_data = extract_comment_details(el) for the next
   element; an exception other than the ones extract_comment_details handles
   (a stale element) leaves it. *)
ExtractCommentDetails ==
    /\ pc = "comments"
    /\ cidx <= Len(comment_elements)
    /\ \/ /\ pc' = "save_comment"
          /\ UNCHANGED <<idx, propagating, interrupted, harvests>>
       \/ /\ \E k \in ExcKinds : RaiseInApp(k)
          /\ SetFailedAt
    /\ UNCHANGED <<app_links, session, created, quits, pageVars, invoked, hlog,
                   saved, appSaved, pureVars>>

(* a handler around each comment: the failing comment is skipped and the
   loop goes on with the next element *)
SaveCommentDetailsSkip ==
    /\ pc = "save_comment"
    /\ \/ /\ saved' = [saved EXCEPT ![Len(saved)] = Append(@, comment_elements[cidx])]
          /\ UNCHANGED harvests
       \/ /\ SetFailedAt
          /\ UNCHANGED saved
    /\ cidx' = cidx + 1
    /\ pc' = "comments"
    /\ UNCHANGED <<idx, propagating, interrupted>>
    /\ UNCHANGED <<app_links, session, created, quits, control, revealed, clicks,
                   comment_elements, invoked, hlog, appSaved, pureVars>>

(* savers.py:102-103  save_comment_details(app_instance, comment_data): each
   comment is written by its own update_or_create, outside any transaction,
   so what was saved stays saved when a later call raises. *)
SaveCommentDetails ==
    /\ pc = "save_comment"
    /\ \/ /\ saved' = [saved EXCEPT ![Len(saved)] = Append(@, comment_elements[cidx])]
          /\ cidx' = cidx + 1
          /\ pc' = "comments"
          /\ UNCHANGED <<idx, propagating, interrupted, harvests>>
       \/ /\ \E k \in ExcKinds : RaiseInApp(k)
          /\ SetFailedAt
          /\ UNCHANGED <<saved, cidx>>
    /\ UNCHANGED <<app_links, session, created, quits, control, revealed, clicks,
                   comment_elements, invoked, hlog, appSaved, pureVars>>

(* savers.py:100,104  the comment loop is exhausted: save_app_and_comments
   returns and the for loop of run_scraper goes on. *)
CommentsDone ==
    /\ pc = "comments"
    /\ cidx > Len(comment_elements)
    /\ pc' = "loop"
    /\ idx' = idx + 1
    /\ UNCHANGED <<app_links, session, created, quits, propagating, pageVars,
                   histVars, pureVars>>
    /\ UNCHANGED interrupted

(* scripts.py:26-28  finally: wd.quit().  It runs when the loop ends and when
   an exception leaves the loop; quit itself may raise. *)
FinallyNoGuarantee ==
    /\ pc = "finally"
    /\ pc' = "done"
    /\ IF propagating
       THEN UNCHANGED <<session, quits, propagating>>
       ELSE /\ session' = "closed"
            /\ quits' = quits + 1
            /\ \E raised \in BOOLEAN : propagating' = raised
    /\ UNCHANGED <<app_links, idx, created, pageVars, histVars, pureVars>>
    /\ UNCHANGED interrupted

Finally ==
    /\ pc = "finally"
    /\ session' = "closed"
    /\ quits' = quits + 1
    /\ \E raised \in BOOLEAN : propagating' = (propagating \/ raised)
    /\ pc' = "done"
    /\ UNCHANGED <<app_links, idx, created, pageVars, histVars, pureVars>>
    /\ UNCHANGED interrupted

Next ==
    \/ GetAppLinks
    \/ CreateWebdriver
    \/ SaveAppAndComments
    \/ LoopExit
    \/ ExtractAppDetails
    \/ SaveAppDetails
    \/ Navigate
    \/ Locate
    \/ Click
    \/ Collect
    \/ ExtractCommentDetails
    \/ SaveCommentDetails
    \/ CommentsDone
    \/ Finally

Spec == Init /\ [][Next]_vars

(***************************************************************************)
(* Strings of the text normalizers (utils.py).  An optional string is      *)
(* None or Some(s).                                                        *)
(***************************************************************************)
None == [isNone |-> TRUE, str |-> <<>>]
Some(s) == [isNone |-> FALSE, str |-> s]

LatinDigits == <<"0", "1", "2", "3", "4", "5", "6", "7", "8", "9">>
PersianDigits == <<"p0", "p1", "p2", "p3", "p4", "p5", "p6", "p7", "p8", "p9">>

(* the Persian letters used by the model; all lie in U+0600..U+06FF *)
PersianLetters == {"alef", "alefmad", "be", "te", "khe", "dal", "zal", "re", "ze",
                   "sin", "shin", "fe", "mim", "nun", "vav", "he", "ye", "gaf"}

Hezar    == <<"he", "ze", "alef", "re">>                        \* utils.py:134
Megabyte == <<"mim", "gaf", "alef", "be", "alef", "ye", "te">>  \* utils.py:167

IsDigit(c) == \E i \in 1..10 : LatinDigits[i] = c
DigitVal(c) == (CHOOSE i \in 1..10 : LatinDigits[i] = c) - 1
IsSpace(c) == c = " "

(* utils.py:32-34  str.translate with the Persian-to-Latin digit table *)
convert_persian_digits_to_english(s) ==
    [i \in 1..Len(s) |->
        IF \E d \in 1..10 : PersianDigits[d] = s[i]
        THEN LatinDigits[CHOOSE d \in 1..10 : PersianDigits[d] = s[i]]
        ELSE s[i]]

(* utils.py:47  re.search(r'[U+0600-U+06FF]', text): the Persian digits
   U+06F0..U+06F9 and the Persian letters are in the range *)
contains_persian(s) ==
    \E i \in 1..Len(s) :
        \/ s[i] \in PersianLetters
        \/ \E d \in 1..10 : PersianDigits[d] = s[i]

(* str.lower(): the Latin capitals; Persian letters and digits have no case *)
UpperLetters == <<"A", "B", "C", "D", "E", "F", "G", "H", "I", "J", "K", "L", "M",
                  "N", "O", "P", "Q", "R", "S", "T", "U", "V", "W", "X", "Y", "Z">>
LowerLetters == <<"a", "b", "c", "d", "e", "f", "g", "h", "i", "j", "k", "l", "m",
                  "n", "o", "p", "q", "r", "s", "t", "u", "v", "w", "x", "y", "z">>
LowerChar(c) ==
    IF \E i \in 1..26 : UpperLetters[i] = c
    THEN LowerLetters[CHOOSE i \in 1..26 : UpperLetters[i] = c]
    ELSE c
Lower(s) == [i \in 1..Len(s) |-> LowerChar(s[i])]

(* str.strip() *)
RECURSIVE LStrip(_)
LStrip(s) == IF s # <<>> /\ IsSpace(Head(s)) THEN LStrip(Tail(s)) ELSE s
RECURSIVE RStrip(_)
RStrip(s) == IF s # <<>> /\ IsSpace(s[Len(s)]) THEN RStrip(SubSeq(s, 1, Len(s) - 1)) ELSE s
Strip(s) == RStrip(LStrip(s))

StartsWith(s, pat) == Len(pat) <= Len(s) /\ SubSeq(s, 1, Len(pat)) = pat

(* `pat in s` for a non-empty pat *)
Contains(s, pat) == \E i \in 1..(Len(s) - Len(pat) + 1) : SubSeq(s, i, i + Len(pat) - 1) = pat

(* s.replace(old, new) for a non-empty old: leftmost non-overlapping matches *)
RECURSIVE Replace(_, _, _)
Replace(s, old, new) ==
    IF Len(s) < Len(old) THEN s
    ELSE IF StartsWith(s, old)
         THEN new \o Replace(SubSeq(s, Len(old) + 1, Len(s)), old, new)
         ELSE <<Head(s)>> \o Replace(Tail(s), old, new)

(* ''.join(filter(str.isdigit, text)) *)
RECURSIVE FilterDigits(_)
FilterDigits(s) ==
    IF s = <<>> THEN <<>>
    ELSE IF IsDigit(Head(s)) THEN <<Head(s)>> \o FilterDigits(Tail(s))
         ELSE FilterDigits(Tail(s))

(* the number a run of Latin digits denotes *)
RECURSIVE DigitsToNat(_)
DigitsToNat(s) ==
    IF s = <<>> THEN 0 ELSE 10 * DigitsToNat(SubSeq(s, 1, Len(s) - 1)) + DigitVal(s[Len(s)])

AllDigits(s) == \A i \in 1..Len(s) : IsDigit(s[i])

RECURSIVE Pow10(_)
Pow10(n) == IF n = 0 THEN 1 ELSE 10 * Pow10(n - 1)

(* int(x) of a number num/den: truncation towards zero *)
Trunc(num, den) == IF num >= 0 THEN num \div den ELSE -((-num) \div den)

(***************************************************************************)
(* int(str): surrounding whitespace, an optional sign, one or more digits. *)
(* The result is [ok, val]; ok = FALSE stands for ValueError.              *)
(***************************************************************************)
ParseInt(s) ==
    LET t == Strip(s)
        signed == t # <<>> /\ Head(t) \in {"+", "-"}
        body == IF signed THEN Tail(t) ELSE t
    IN  IF body # <<>> /\ AllDigits(body)
        THEN [ok |-> TRUE,
              val |-> IF signed /\ Head(t) = "-" THEN -DigitsToNat(body) ELSE DigitsToNat(body)]
        ELSE [ok |-> FALSE, val |-> 0]

(***************************************************************************)
(* float(str) on the characters of the model: surrounding whitespace, an   *)
(* optional sign, digits with at most one point and at least one digit.    *)
(* The result is [ok, num, den] with the value num/den; ok = FALSE stands  *)
(* for ValueError.                                                         *)
(***************************************************************************)
ParseFloat(s) ==
    LET t == Strip(s)
        signed == t # <<>> /\ Head(t) \in {"+", "-"}
        body == IF signed THEN Tail(t) ELSE t
        points == {i \in 1..Len(body) : body[i] = "."}
        wellFormed == /\ Cardinality(points) <= 1
                      /\ \A i \in 1..Len(body) : IsDigit(body[i]) \/ body[i] = "."
                      /\ \E i \in 1..Len(body) : IsDigit(body[i])
        digits == FilterDigits(body)
        frac == IF points = {} THEN 0 ELSE Len(body) - (CHOOSE i \in points : TRUE)
        mag == DigitsToNat(digits)
    IN  IF wellFormed
        THEN [ok |-> TRUE,
              num |-> IF signed /\ Head(t) = "-" THEN -mag ELSE mag,
              den |-> Pow10(frac)]
        ELSE [ok |-> FALSE, num |-> 0, den |-> 1]

(***************************************************************************)
(* The result of a call: a value, or an exception that leaves the call.    *)
(***************************************************************************)
Return(v) == [raised |-> "no", value |-> v]
Raise(e)  == [raised |-> e, value |-> 0]

(* utils.py:135-136 and 139-140  int(float(number) * 1000), number being the
   text without the unit token; float raises ValueError on a non-numeral *)
TimesThousand(number) ==
    LET f == ParseFloat(number)
    IN  IF f.ok THEN Return(Trunc(f.num * 1000, f.den)) ELSE Raise("ValueError")

(* utils.py:128-144 *)
parse_installs(installs_str) ==
    IF installs_str.isNone \/ installs_str.str = <<>> THEN Return(0)
    ELSE LET text0 == convert_persian_digits_to_english(installs_str.str)
             text == Lower(Strip(Replace(text0, <<"+">>, <<>>)))
         IN  IF Contains(text, Hezar)
             THEN TimesThousand(Strip(Replace(text, Hezar, <<>>)))
             ELSE IF Contains(text, <<"k">>)
             THEN TimesThousand(Strip(Replace(text, <<"k">>, <<>>)))
             ELSE LET number == FilterDigits(text)
                  IN  Return(IF number # <<>> THEN DigitsToNat(number) ELSE 0)

(* utils.py:161-175.  The text is lowercased at line 165, so the test for
   'MB' at line 169 is made on a text that holds no capital letter. *)
parse_size(size_str) ==
    IF size_str.isNone \/ size_str.str = <<>> THEN Return(0)
    ELSE LET text0 == Lower(Strip(convert_persian_digits_to_english(size_str.str)))
             text == IF Contains(text0, Megabyte)
                     THEN Strip(Replace(text0, Megabyte, <<>>))
                     ELSE IF Contains(text0, <<"M", "B">>)
                     THEN Strip(Replace(text0, <<"M", "B">>, <<>>))
                     ELSE text0
             f == ParseFloat(text)
         IN  IF f.ok THEN Return(Trunc(f.num, f.den)) ELSE Return(0)

(***************************************************************************)
(* Inputs of the normalizers: None, every string of at most MaxLen         *)
(* characters, every numeral of at most MaxNumLen characters followed by   *)
(* an optional space and a unit, and the strings the documentation names.  *)
(***************************************************************************)
MaxLen    == 3
MaxNumLen == 3

NumChars == {"1", "5", "p2", ".", "-"}
Numerals == SeqsUpTo(NumChars, MaxNumLen)
Spaces   == {<<>>, <<" ">>}

InstallChars == {"1", "p5", ".", "-", "+", " ", "k", "K", "o"}
InstallUnits == {<<>>, <<"k">>, <<"K">>, <<"+">>, Hezar}
InstallExamples ==
    { <<"p1", "p0", " ">> \o Hezar,      \* utils.py:118
      <<"5", "k">>,                      \* utils.py:119
      <<"1", "0", "0", "0", "+">>,       \* utils.py:119
      <<"a", "b", "c">>,
      <<"o", "k">>,
      <<"-", "5", "k">> }
InstallInputs ==
    {None}
    \cup {Some(s) : s \in SeqsUpTo(InstallChars, MaxLen)}
    \cup {Some(n \o sp \o u) : n \in Numerals, sp \in Spaces, u \in InstallUnits}
    \cup {Some(s) : s \in InstallExamples}

SizeChars == {"4", "p2", ".", "-", " ", "M", "B", "m", "b"}
SizeUnits == {<<>>, <<"M", "B">>, <<"m", "b">>, Megabyte}
SizeExamples ==
    { <<"p2", "p1", "p5", " ">> \o Megabyte,   \* utils.py:152-153
      <<"4", "8", ".", "7", "M", "B">>,
      <<"4", "8", ".", "7">> }
SizeInputs ==
    {None}
    \cup {Some(s) : s \in SeqsUpTo(SizeChars, MaxLen)}
    \cup {Some(n \o sp \o u) : n \in Numerals, sp \in Spaces, u \in SizeUnits}
    \cup {Some(s) : s \in SizeExamples}

(***************************************************************************)
(* A call of one normalizer on one input.  The run of run_scraper is idle. *)
(***************************************************************************)
PureInit(position) ==
    /\ pc = position
    /\ app_links = <<>>
    /\ idx = 1
    /\ session = "none"
    /\ created = 0
    /\ quits = 0
    /\ propagating = FALSE
    /\ control = FALSE
    /\ revealed = 0
    /\ clicks = 0
    /\ comment_elements = <<>>
    /\ cidx = 1
    /\ invoked = <<>>
    /\ harvests = <<>>
    /\ hlog = <<>>
    /\ saved = <<>>
    /\ appSaved = <<>>
    /\ interrupted = FALSE
    /\ out = Return(0)

PureCall(position, result) ==
    /\ pc = position
    /\ out' = result
    /\ pc' = IF result.raised = "no" THEN "returned" ELSE "raised"
    /\ propagating' = (result.raised # "no")
    /\ UNCHANGED <<app_links, idx, session, created, quits, pageVars, histVars, inp>>
    /\ UNCHANGED interrupted

InitInstalls == PureInit("parse_installs") /\ inp \in InstallInputs
CallParseInstalls == PureCall("parse_installs", parse_installs(inp))
SpecInstalls == InitInstalls /\ [][CallParseInstalls]_vars

InitSize == PureInit("parse_size") /\ inp \in SizeInputs
CallParseSize == PureCall("parse_size", parse_size(inp))
SpecSize == InitSize /\ [][CallParseSize]_vars

(***************************************************************************)
(* parse_jalali_date, utils.py:50-109.                                     *)
(***************************************************************************)
(* utils.py:7-20 *)
PERSIAN_MONTHS ==
    << <<"fe", "re", "vav", "re", "dal", "ye", "nun">>,
       <<"alef", "re", "dal", "ye", "be", "he", "shin", "te">>,
       <<"khe", "re", "dal", "alef", "dal">>,
       <<"te", "ye", "re">>,
       <<"mim", "re", "dal", "alef", "dal">>,
       <<"shin", "he", "re", "ye", "vav", "re">>,
       <<"mim", "he", "re">>,
       <<"alefmad", "be", "alef", "nun">>,
       <<"alefmad", "zal", "re">>,
       <<"dal", "ye">>,
       <<"be", "he", "mim", "nun">>,
       <<"alef", "sin", "fe", "nun", "dal">> >>

(* the month names %B of strptime matches (utils.py:105), ignoring case *)
EnglishMonths ==
    << <<"J", "a", "n", "u", "a", "r", "y">>,
       <<"F", "e", "b", "r", "u", "a", "r", "y">>,
       <<"M", "a", "r", "c", "h">>,
       <<"A", "p", "r", "i", "l">>,
       <<"M", "a", "y">>,
       <<"J", "u", "n", "e">>,
       <<"J", "u", "l", "y">>,
       <<"A", "u", "g", "u", "s", "t">>,
       <<"S", "e", "p", "t", "e", "m", "b", "e", "r">>,
       <<"O", "c", "t", "o", "b", "e", "r">>,
       <<"N", "o", "v", "e", "m", "b", "e", "r">>,
       <<"D", "e", "c", "e", "m", "b", "e", "r">> >>

NoDate == [isNone |-> TRUE, y |-> 0, m |-> 0, d |-> 0]
Date(y, m, d) == [isNone |-> FALSE, y |-> y, m |-> m, d |-> d]

(* s.split(c) *)
RECURSIVE SplitOn(_, _)
SplitOn(s, c) ==
    IF \E i \in 1..Len(s) : s[i] = c
    THEN LET i == CHOOSE k \in 1..Len(s) : s[k] = c /\ \A j \in 1..(k - 1) : s[j] # c
         IN  <<SubSeq(s, 1, i - 1)>> \o SplitOn(SubSeq(s, i + 1, Len(s)), c)
    ELSE <<s>>

(* s.split(): the maximal runs of non-whitespace characters *)
RECURSIVE SplitWs(_)
SplitWs(s) ==
    LET t == LStrip(s)
    IN  IF t = <<>> THEN <<>>
        ELSE IF \E i \in 1..Len(t) : IsSpace(t[i])
        THEN LET i == CHOOSE k \in 1..Len(t) :
                          IsSpace(t[k]) /\ \A j \in 1..(k - 1) : ~IsSpace(t[j])
             IN  <<SubSeq(t, 1, i - 1)>> \o SplitWs(SubSeq(t, i + 1, Len(t)))
        ELSE <<t>>

GregorianLeap(y) == (y % 4 = 0 /\ y % 100 # 0) \/ y % 400 = 0
g_days_in_month == <<31, 28, 31, 30, 31, 30, 31, 31, 30, 31, 30, 31>>
j_days_in_month == <<31, 31, 31, 31, 31, 31, 30, 30, 30, 30, 30, 29>>

(* datetime.date(year, month, day), utils.py:81: ValueError out of range *)
GregorianValid(y, m, d) ==
    /\ y \in 1..9999
    /\ m \in 1..12
    /\ d >= 1
    /\ d <= g_days_in_month[m] + (IF m = 2 /\ GregorianLeap(y) THEN 1 ELSE 0)

(* jdatetime.date(year, month, day), utils.py:78,98: ValueError out of range *)
JalaliLeap(y) == (y % 33) \in {1, 5, 9, 13, 17, 22, 26, 30}
JalaliValid(y, m, d) ==
    /\ y \in 1..9377
    /\ m \in 1..12
    /\ d >= 1
    /\ d <= (IF m = 12 /\ JalaliLeap(y) THEN 30 ELSE j_days_in_month[m])

RECURSIVE SumDays(_, _)
SumDays(table, n) == IF n = 0 THEN 0 ELSE table[n] + SumDays(table, n - 1)

(* the month and day of day number n (from 0) of a Gregorian year *)
RECURSIVE MonthDay(_, _, _)
MonthDay(n, i, leap) ==
    LET len == g_days_in_month[i] + (IF i = 2 /\ leap THEN 1 ELSE 0)
    IN  IF n >= len THEN MonthDay(n - len, i + 1, leap) ELSE <<i, n + 1>>

(* jalali_date.togregorian(), utils.py:79,99: the day-count conversion of
   the jdatetime library, for a valid Jalali date *)
togregorian(jy, jm, jd) ==
    LET jyear == jy - 979
        j_day_no == 365 * jyear + (jyear \div 33) * 8 + ((jyear % 33) + 3) \div 4
                    + SumDays(j_days_in_month, jm - 1) + (jd - 1)
        g0 == j_day_no + 79
        y0 == 1600 + 400 * (g0 \div 146097)
        g1 == g0 % 146097
        century == g1 >= 36525
        g1a == g1 - 1
        y1 == IF century THEN y0 + 100 * (g1a \div 36524) ELSE y0
        g2a == g1a % 36524
        g2 == IF century THEN (IF g2a >= 365 THEN g2a + 1 ELSE g2a) ELSE g1
        leap1 == ~(century /\ g2a < 365)
        y2 == y1 + 4 * (g2 \div 1461)
        g3 == g2 % 1461
        late == g3 >= 366
        leap == leap1 /\ ~late
        y3 == IF late THEN y2 + ((g3 - 1) \div 365) ELSE y2
        g4 == IF late THEN (g3 - 1) % 365 ELSE g3
        md == MonthDay(g4, 1, leap)
    IN  Date(y3, md[1], md[2])

MonthIndex(table, name) ==
    IF \E i \in 1..12 : table[i] = name
    THEN CHOOSE i \in 1..12 : table[i] = name
    ELSE 0

(* datetime.strptime(cleaned, "%Y %B %d").date(), utils.py:105, on the three
   whitespace-separated parts of cleaned: %Y is four digits, %B a full month
   name in any case, %d a day 1..31 of one or two digits *)
Strptime(parts) ==
    LET ys == parts[1]
        ds == parts[3]
        m == MonthIndex([i \in 1..12 |-> Lower(EnglishMonths[i])], Lower(parts[2]))
        y == DigitsToNat(ys)
        d == DigitsToNat(ds)
    IN  IF /\ Len(ys) = 4 /\ AllDigits(ys)
           /\ Len(ds) \in 1..2 /\ AllDigits(ds) /\ d \in 1..31
           /\ m # 0
           /\ GregorianValid(y, m, d)
        THEN Date(y, m, d)
        ELSE NoDate

(* utils.py:67-109 *)
parse_jalali_date(persian_date_str) ==
    IF persian_date_str.isNone \/ persian_date_str.str = <<>> THEN Return(NoDate)
    ELSE
    LET is_jalali == contains_persian(persian_date_str.str)
        cleaned == convert_persian_digits_to_english(Strip(persian_date_str.str))
        slash == SplitOn(cleaned, "/")
        parts == SplitWs(cleaned)
    IN  IF Len(slash) = 3
        THEN LET year == ParseInt(slash[1])
                 month == ParseInt(slash[2])
                 day == ParseInt(slash[3])
             IN  IF ~(year.ok /\ month.ok /\ day.ok) THEN Return(NoDate)
                 ELSE IF is_jalali
                 THEN IF JalaliValid(year.val, month.val, day.val)
                      THEN Return(togregorian(year.val, month.val, day.val))
                      ELSE Return(NoDate)
                 ELSE IF GregorianValid(year.val, month.val, day.val)
                      THEN Return(Date(year.val, month.val, day.val))
                      ELSE Return(NoDate)
        ELSE IF Len(parts) = 3
        THEN IF is_jalali
             THEN LET day == ParseInt(parts[1])
                      month == MonthIndex(PERSIAN_MONTHS, parts[2])
                      year == ParseInt(parts[3])
                  IN  IF day.ok /\ year.ok /\ month # 0
                         /\ JalaliValid(year.val, month, day.val)
                      THEN Return(togregorian(year.val, month, day.val))
                      ELSE Return(NoDate)
             ELSE Return(Strptime(parts))
        ELSE Return(NoDate)

(***************************************************************************)
(* Inputs of parse_jalali_date: a day (y, m, d) written in each layout the *)
(* docstring names (utils.py:54-56), with valid and invalid months and     *)
(* days, and every string of at most MaxLen characters.                    *)
(***************************************************************************)
DateYears  == {1403, 1404, 2025}
DateMonths == {1, 2, 4, 7, 12, 13}
DateDays   == {1, 5, 29, 30, 31, 32}
DateChars  == {"1", "p1", "/", " ", "te"}

RECURSIVE NatToDigits(_)
NatToDigits(n) ==
    IF n < 10 THEN <<LatinDigits[n + 1]>>
    ELSE NatToDigits(n \div 10) \o <<LatinDigits[(n % 10) + 1]>>

Pad2(n) == IF n < 10 THEN <<"0">> \o NatToDigits(n) ELSE NatToDigits(n)

(* the same string written with Persian digits *)
ToPersianDigits(s) ==
    [i \in 1..Len(s) |-> IF IsDigit(s[i]) THEN PersianDigits[DigitVal(s[i]) + 1] ELSE s[i]]

NumericLayout(y, m, d) == NatToDigits(y) \o <<"/">> \o NatToDigits(m) \o <<"/">> \o NatToDigits(d)
PaddedLayout(y, m, d)  == NatToDigits(y) \o <<"/">> \o Pad2(m) \o <<"/">> \o Pad2(d)
JalaliTextLayout(y, m, d) ==
    ToPersianDigits(NatToDigits(d)) \o <<" ">> \o PERSIAN_MONTHS[m] \o <<" ">>
        \o ToPersianDigits(NatToDigits(y))
GregorianTextLayout(y, m, d) ==
    NatToDigits(y) \o <<" ">> \o EnglishMonths[m] \o <<" ">> \o NatToDigits(d)

DateInputs ==
    {None}
    \cup {Some(s) : s \in SeqsUpTo(DateChars, MaxLen)}
    \cup UNION { { Some(NumericLayout(y, m, d)),
                   Some(ToPersianDigits(NumericLayout(y, m, d))),
                   Some(ToPersianDigits(PaddedLayout(y, m, d))) }
                 : y \in DateYears, m \in DateMonths, d \in DateDays }
    \cup UNION { { Some(JalaliTextLayout(y, m, d)),
                   Some(GregorianTextLayout(y, m, d)) }
                 : y \in DateYears, m \in DateMonths \cap 1..12, d \in DateDays }

InitDate == PureInit("parse_jalali_date") /\ inp \in DateInputs
CallParseJalaliDate == PureCall("parse_jalali_date", parse_jalali_date(inp))
SpecDate == InitDate /\ [][CallParseJalaliDate]_vars

(***************************************************************************)
(* extract_comment_details, scraper.py:177-233.                            *)
(* A comment element el is a record:                                       *)
(*   id        the id attribute (None when the element has none)           *)
(*   username  the text of the AppComment__username child, None = no child *)
(*   body      the text of the AppComment__body child, None = no child     *)
(*   rating    [present, style]: the rating__fill child and its style      *)
(*             attribute (None when the attribute is absent)               *)
(*   meta      [present, divs]: the AppComment__meta child and the texts   *)
(*             of its child divs, in document order                        *)
(* find_element raises NoSuchElementException for a child that is absent.  *)
(***************************************************************************)
NoRating == [isNone |-> TRUE, val |-> 0]
Rating(v) == [isNone |-> FALSE, val |-> v]

WidthPrefix == <<"w", "i", "d", "t", "h", ":">>

(* round(percent / 20), scraper.py:214: Python rounds a tie to the even
   neighbour; \div and % are the floor division and its remainder *)
RoundDiv20(percent) ==
    LET q == percent \div 20
        r == percent % 20
    IN  IF r < 10 THEN q
        ELSE IF r > 10 THEN q + 1
        ELSE IF q % 2 = 0 THEN q ELSE q + 1

(* scraper.py:198-202 *)
username_of(el) == IF el.username.isNone THEN None ELSE Some(Strip(el.username.str))

(* scraper.py:204-208 *)
body_of(el) == IF el.body.isNone THEN None ELSE Some(Strip(el.body.str))

(* scraper.py:210-217 *)
rating_of(el) ==
    IF ~el.rating.present THEN NoRating              \* NoSuchElementException
    ELSE LET style == el.rating.style
         IN  IF style.isNone \/ style.str = <<>> THEN Rating(RoundDiv20(0))
             ELSE LET percent == ParseInt(Strip(
                          Replace(Replace(Replace(style.str, WidthPrefix, <<>>),
                                          <<"%", ";">>, <<>>),
                                  <<"%">>, <<>>)))
                  IN  IF percent.ok THEN Rating(RoundDiv20(percent.val))
                      ELSE NoRating                  \* ValueError

(* scraper.py:219-225 *)
date_of(el) ==
    IF ~el.meta.present THEN None                    \* NoSuchElementException
    ELSE LET child_divs == el.meta.divs
         IN  IF Len(child_divs) > 1 THEN Some(Strip(child_divs[2])) ELSE Some(<<>>)

CommentRecord(id, username, text, rating, date) ==
    [id |-> id, username |-> username, text |-> text, rating |-> rating, date |-> date]

(* one try block around the whole extraction: a missing child drops every field *)
extract_comment_details_single_try(el) ==
    IF el.username.isNone \/ el.body.isNone \/ ~el.rating.present \/ ~el.meta.present
    THEN Return(CommentRecord(el.id, None, None, NoRating, None))
    ELSE Return(CommentRecord(el.id, username_of(el), body_of(el), rating_of(el), date_of(el)))

(* scraper.py:192-233 *)
extract_comment_details(el) ==
    Return(CommentRecord(el.id, username_of(el), body_of(el), rating_of(el), date_of(el)))

(***************************************************************************)
(* Comment elements: every combination of present and absent children.     *)
(***************************************************************************)
MaxDivs == 3

Percents == 0..100
WidthStyle(p) == WidthPrefix \o <<" ">> \o NatToDigits(p) \o <<"%", ";">>
NumericStyles ==
    {WidthStyle(p) : p \in Percents}
    \cup {WidthPrefix \o NatToDigits(p) \o <<"%">> : p \in {0, 50, 100}}
    \cup {NatToDigits(p) \o <<"%", ";">> : p \in {0, 50, 100}}
NonNumericStyles ==
    { WidthPrefix \o <<" ", "5", ".", "5", "%", ";">>,
      WidthPrefix \o <<" ", "5", "0", "p", "x", ";">>,
      WidthPrefix \o <<" ", "a", "u", "t", "o", ";">>,
      <<"h", "e", "i", "g", "h", "t", ":", " ", "5", "0", "%", ";">> }
RatingChildren ==
    {[present |-> FALSE, style |-> None], [present |-> TRUE, style |-> None],
     [present |-> TRUE, style |-> Some(<<>>)]}
    \cup {[present |-> TRUE, style |-> Some(st)] : st \in NumericStyles \cup NonNumericStyles}

Texts(c) == {None, Some(<<c>>), Some(<<" ", c, " ">>)}
DivTexts == {<<"5">>, <<" ", "p1", " ">>}
MetaChildren ==
    {[present |-> FALSE, divs |-> <<>>]}
    \cup {[present |-> TRUE, divs |-> ds] : ds \in SeqsUpTo(DivTexts, MaxDivs)}

CommentElements ==
    [id : {None, Some(<<"c", "1">>)}, username : Texts("u"), body : Texts("b"),
     rating : RatingChildren, meta : MetaChildren]

InitComment == PureInit("extract_comment_details") /\ inp \in CommentElements
CallExtractCommentDetails ==
    PureCall("extract_comment_details", extract_comment_details(inp))
SpecComment == InitComment /\ [][CallExtractCommentDetails]_vars

(***************************************************************************)
(*                              Properties                                 *)
(***************************************************************************)
IsPrefix(s, t) == Len(s) <= Len(t) /\ \A i \in 1..Len(s) : s[i] = t[i]

FailEvents == {"get_fail", "locate_fail", "click_fail", "find_fail"}

HarvestReturned == Len(harvests) > 0 /\ Last(harvests).result = "returned"

(* C1: in extract_all_comment_elements, once the wait for the 'load more'
   control has timed out no further locate or click happens, whatever number
   of clicks and of revealed comments came before: the only session call that
   follows is the one find_elements of scraper.py:172, and until it is made
   the function stands at that statement. *)
C1_TimeoutEndsLoop ==
    \A i \in 1..Len(hlog) :
        hlog[i] = "locate_timeout" =>
            /\ \A j \in (i + 1)..Len(hlog) : j = i + 1 /\ hlog[j] \in {"find_ok", "find_fail"}
            /\ (i = Len(hlog) => pc = "collect")

(* a harvest that clicked, revealed comments, timed out and returned them *)
C1_Witness ==
    /\ Len(hlog) >= 5
    /\ hlog[Len(hlog) - 1] = "locate_timeout"
    /\ hlog[Len(hlog)] = "find_ok"
    /\ \E i \in 1..Len(hlog) : hlog[i] = "click_ok"
    /\ revealed > 0
    /\ Len(comment_elements) = revealed
    /\ HarvestReturned

(* C2: a failure of the session at any call of extract_all_comment_elements
   (navigation, locating the control, scrolling/clicking it, collecting the
   elements) is raised to the caller: a harvest that returned normally had no
   failing session call. *)
C2_SessionFailureSurfaced ==
    HarvestReturned => \A i \in 1..Len(hlog) : hlog[i] \notin FailEvents

(* C9: run_scraper acquires the session once, hands that session to every
   harvest, closes it exactly once on every path after the acquisition
   (also when an exception leaves the loop), processes no app after the
   close, and no harvest closes it. *)
C9_SessionScoped ==
    /\ created <= 1
    /\ quits <= 1
    /\ (session = "open") = (created = 1 /\ quits = 0)
    /\ (pc = "done" /\ created = 1 => quits = 1 /\ session = "closed")
    /\ (pc \notin {"get_links", "create_wd", "done"} => session = "open" /\ quits = 0)
    /\ \A i \in 1..Len(harvests) : harvests[i].wd = 1 /\ harvests[i].session = "open"

(* a run that ended with an exception leaving the loop after a harvest *)
C9_Witness ==
    /\ pc = "done"
    /\ quits = 1
    /\ session = "closed"
    /\ Len(harvests) >= 1
    /\ Len(invoked) < Len(app_links)

(* C10: save_app_and_comments is invoked for the URLs of app_links in list
   order, once each, and whatever exceptions (subclasses of Exception) the
   detail extraction, the app save, the harvest or the comment save raise,
   every URL has been processed when the loop ends. *)
C10_PerAppIsolation ==
    /\ IsPrefix(invoked, app_links)
    /\ (pc \in {"finally", "done"} /\ created = 1 /\ ~interrupted => invoked = app_links)

(* a finished run whose first app failed before its record was saved and
   whose second app was saved and harvested *)
C10_Witness ==
    /\ pc = "done"
    /\ ~interrupted
    /\ Len(app_links) = 2
    /\ invoked = app_links
    /\ appSaved = <<FALSE, TRUE>>
    /\ Len(harvests) = 1

(* C3: parse_installs never raises and returns a non-negative integer. *)
C3_ParseInstallsTotal ==
    pc \in {"returned", "raised"} => out.raised = "no" /\ out.value >= 0

(* C4: parse_size of <numeral><optional space><unit>, the unit being the
   Persian word for megabyte or 'MB', is the numeral truncated to an integer;
   parse_size of the empty string is 0. *)
C4_ParseSizeStripsUnit ==
    pc = "returned" =>
        /\ (inp = Some(<<>>) => out.value = 0)
        /\ \A n \in Numerals \cup {<<"p2", "p1", "p5">>, <<"4", "8", ".", "7">>} :
           \A sp \in Spaces : \A u \in {Megabyte, <<"M", "B">>} :
              LET f == ParseFloat(convert_persian_digits_to_english(n))
              IN  (f.ok /\ inp = Some(n \o sp \o u)) => out.value = Trunc(f.num, f.den)

(* C5: parse_jalali_date of 1 Tir 1404 in the textual layout and of
   '1404/4/1' in the numeric layout, in Latin digits, are both the Gregorian
   date 2025-06-22. *)
C5_TwoLayoutsAgree ==
    pc = "returned" =>
        (inp \in {Some(JalaliTextLayout(1404, 4, 1)), Some(NumericLayout(1404, 4, 1))}
            => out.value = Date(2025, 6, 22))

(* C6: extract_comment_details returns a record for every set of missing
   children: a field whose child is missing is null, and every other field
   holds what its child gives (the stripped text of the username and of the
   body, a rating for a percentage width, the stripped text of the second
   meta div), the id being the id attribute. *)
C6_PerFieldIsolation ==
    pc \in {"returned", "raised"} =>
        /\ out.raised = "no"
        /\ out.value.id = inp.id
        /\ (inp.username.isNone => out.value.username.isNone)
        /\ (~inp.username.isNone => out.value.username = Some(Strip(inp.username.str)))
        /\ (inp.body.isNone => out.value.text.isNone)
        /\ (~inp.body.isNone => out.value.text = Some(Strip(inp.body.str)))
        /\ (~inp.rating.present => out.value.rating.isNone)
        /\ \A p \in Percents :
              (inp.rating.present /\ inp.rating.style = Some(WidthStyle(p)))
                  => ~out.value.rating.isNone /\ (out.value.rating.val - p \div 20) \in {0, 1}
        /\ (~inp.meta.present => out.value.date.isNone)
        /\ (inp.meta.present /\ Len(inp.meta.divs) > 1
                => out.value.date = Some(Strip(inp.meta.divs[2])))

(* a comment without rating indicator, every other field populated *)
C6_Witness ==
    /\ pc = "returned"
    /\ ~inp.rating.present
    /\ out.value.rating.isNone
    /\ ~inp.id.isNone /\ out.value.id = inp.id
    /\ out.value.username = Some(<<"u">>)
    /\ out.value.text = Some(<<"b">>)
    /\ Len(inp.meta.divs) = 2
    /\ out.value.date = Some(<<"p1">>)

(* C7: the date of extract_comment_details is the text of the second child
   div of the metadata container, and null when the container has fewer than
   two child divs. *)
C7_DateNullBelowTwoDivs ==
    pc = "returned" /\ inp.meta.present =>
        IF Len(inp.meta.divs) > 1
        THEN out.value.date = Some(Strip(inp.meta.divs[2]))
        ELSE out.value.date.isNone

(* C8: the rating of extract_comment_details is null when the indicator is
   missing, when its style is absent or empty, and when the style is not
   numeric; for a width of p percent, p in 0..100, it is an integer nearest
   to p/20, in 0..5. *)
C8_RatingNullOrNearest ==
    pc = "returned" =>
        /\ (~inp.rating.present => out.value.rating.isNone)
        /\ (inp.rating.present /\ (inp.rating.style.isNone \/ inp.rating.style.str = <<>>)
                => out.value.rating.isNone)
        /\ (inp.rating.present /\ ~inp.rating.style.isNone
                /\ inp.rating.style.str \in NonNumericStyles
                => out.value.rating.isNone)
        /\ \A p \in Percents :
              (inp.rating.present /\ inp.rating.style = Some(WidthStyle(p)))
                  => /\ ~out.value.rating.isNone
                     /\ out.value.rating.val \in 0..5
                     /\ 20 * out.value.rating.val - p \in -10..10

LocateEvents == {"locate_ok", "locate_timeout", "locate_fail"}
ClickEvents  == {"click_ok", "click_fail"}
FindEvents   == {"find_ok", "find_fail"}
(* the events by which the pagination loop is left (Done): the timeout of
   the wait, or any other exception the except clause of scraper.py:169 takes *)
LoopLeftEvents == {"locate_timeout", "locate_fail", "click_fail"}

(* C11: the pagination loop follows Loading -> (ControlFound -> Activated ->
   Loading) | (Timeout -> Done).  The harvest starts, after the navigation,
   by locating the control; a locate happens only at the start or right
   after an activation; every activation comes right after a successful
   locate; the comment elements are collected only once the loop has been
   left; and a locate that timed out is followed by the collection alone,
   never by another locate or an activation. *)
C11_PaginationStateMachine ==
    /\ (hlog # <<>> => hlog[1] \in {"get_ok", "get_fail"})
    /\ \A i \in 2..Len(hlog) :
          /\ hlog[i] \notin {"get_ok", "get_fail"}
          /\ (hlog[i - 1] = "get_ok" => hlog[i] \in LocateEvents)
          /\ (hlog[i] \in LocateEvents => hlog[i - 1] \in {"get_ok", "click_ok"})
          /\ (hlog[i] \in ClickEvents => hlog[i - 1] = "locate_ok")
          /\ (hlog[i] \in FindEvents => hlog[i - 1] \in LoopLeftEvents)
          /\ (hlog[i - 1] = "locate_timeout" => hlog[i] \in FindEvents)
    /\ (pc = "locate" => hlog # <<>> /\ Last(hlog) \in {"get_ok", "click_ok"})
    /\ (pc = "click" => hlog # <<>> /\ Last(hlog) = "locate_ok")
    /\ (pc = "collect" => hlog # <<>> /\ Last(hlog) \in LoopLeftEvents)
    /\ (hlog # <<>> /\ Last(hlog) = "get_ok" => pc = "locate")
    /\ (hlog # <<>> /\ Last(hlog) = "locate_timeout" => pc = "collect")

(* a harvest of two full iterations that ended by the timeout *)
C11_Witness ==
    /\ hlog = <<"get_ok", "locate_ok", "click_ok", "locate_ok", "click_ok",
                "locate_timeout", "find_ok">>
    /\ HarvestReturned

(* the invocation i of save_app_and_comments has ended *)
InvocationOver(i) == i < Len(invoked) \/ pc \in {"loop", "finally", "done"}

(* C12: the comments saved for one app are a prefix, in document order, of
   the elements its harvest returned (none when no harvest returned).  When
   extracting or saving element i raised, exactly the elements before i are
   saved, then and ever after, the app record saved before is kept, and an
   exception of class Exception does not leave save_app_and_comments; when
   nothing raised, every element is saved. *)
C12_SavedPrefix ==
    /\ Len(saved) = Len(invoked)
    /\ \A i \in 1..Len(saved) :
          LET hs == {k \in 1..Len(harvests) :
                        harvests[k].inv = i /\ harvests[k].result = "returned"}
          IN  /\ (hs = {} => saved[i] = <<>>)
              /\ \A k \in hs :
                    /\ IsPrefix(saved[i], harvests[k].elements)
                    /\ appSaved[i]
                    /\ (harvests[k].failedAt > 0
                            => /\ Len(saved[i]) = harvests[k].failedAt - 1
                               /\ InvocationOver(i))
                    /\ (harvests[k].failedAt = 0 /\ InvocationOver(i)
                            => saved[i] = harvests[k].elements)
    /\ (pc \notin {"get_links", "create_wd", "done"} /\ propagating => interrupted)

(* a finished run in which the second of two comments of the first app
   raised an Exception: the first comment and the app record are kept, and
   the next app was processed *)
C12_Witness ==
    /\ pc = "done"
    /\ ~interrupted
    /\ Len(invoked) = 2
    /\ Len(harvests) >= 1
    /\ harvests[1].inv = 1
    /\ harvests[1].elements = <<1, 2>>
    /\ harvests[1].failedAt = 2
    /\ saved[1] = <<1>>
    /\ appSaved[1]

====
